---- MODULE Spec2Model ----
(***************************************************************************)
(* angular-build-info: bin/build-info.js                                   *)
(*                                                                         *)
(* One invocation of the command line tool.  Texts are sequences of       *)
(* one-character strings, so that String.replace, JSON.stringify and the  *)
(* key-unquoting regular expression are computed character by character.  *)
(* Every await of the source is a suspension point: the operation is      *)
(* issued by one action and completed by another.                         *)
(***************************************************************************)
EXTENDS Integers, Sequences, FiniteSets, TLC

VARIABLES
    args,      \* process.argv.slice(2)
    version,   \* package.version
    pc,        \* the await the run is suspended at
    status,    \* state of the promise of the flow that start() called
    error,     \* the value that promise was rejected with
    ran,       \* the flows start() has called
    build,     \* buildInfo's record
    template,  \* init's record
    log,       \* messages handed to signale
    inflight,  \* external operations issued and not yet completed
    issued,    \* external operations in the order they were issued
    queries,   \* completed external commands with what they gave
    pending,   \* the text handed to fs.writeFile
    written,   \* how fs.writeFile settled
    file       \* content of the destination file

vars == <<args, version, pc, status, error, ran, build, template, log,
          inflight, issued, queries, pending, written, file>>

(***************************************************************************)
(* Bounds of the model                                                     *)
(***************************************************************************)
\* longest argument list given on the command line
MaxArgs == 2
\* longest value an external command prints, not counting its line break
MaxOut == 2

(***************************************************************************)
(* Characters and values                                                   *)
(***************************************************************************)
QUOTE == "\""
BACKSLASH == "\\"
NEWLINE == "\n"
\* the grave accent (U+0060), which a TLA+ string cannot contain
BACKTICK == "U+0060"

\* characters the external commands may print
Alphabet == {"a", NEWLINE, QUOTE, ":"}

\* a JavaScript value that is either a string or undefined
Undefined == [defined |-> FALSE, str |-> <<>>]
Str(s) == [defined |-> TRUE, str |-> s]

\* all texts over a set of characters up to a length
TextsUpTo(chars, n) == UNION {[1..k -> chars] : k \in 0..n}

(***************************************************************************)
(* Information sources (lines 15-24)                                       *)
(***************************************************************************)
opts == {"--help", "--init", "--no-hash", "--no-user", "--no-version", "--no-time"}

\* tokens a user may type: the recognized ones and one that is not
Tokens == opts \cup {"--bogus"}

\* package.version of the host project
Versions == {Str(<<"2", ".", "3", ".", "1">>)}

\* process.cwd()
Cwd == "/home/user/app"
exportPath == <<Cwd, "/src/build.ts">>

\* Array.prototype.includes
Includes(a, x) == \E i \in 1..Len(a) : a[i] = x

(***************************************************************************)
(* moment().format("MMMM DD, YYYY HH:mm:ss")                               *)
(***************************************************************************)
MonthNames == <<
    <<"J", "a", "n", "u", "a", "r", "y">>,
    <<"F", "e", "b", "r", "u", "a", "r", "y">>,
    <<"M", "a", "r", "c", "h">>,
    <<"A", "p", "r", "i", "l">>,
    <<"M", "a", "y">>,
    <<"J", "u", "n", "e">>,
    <<"J", "u", "l", "y">>,
    <<"A", "u", "g", "u", "s", "t">>,
    <<"S", "e", "p", "t", "e", "m", "b", "e", "r">>,
    <<"O", "c", "t", "o", "b", "e", "r">>,
    <<"N", "o", "v", "e", "m", "b", "e", "r">>,
    <<"D", "e", "c", "e", "m", "b", "e", "r">> >>

Digit(d) == <<"0", "1", "2", "3", "4", "5", "6", "7", "8", "9">>[d + 1]

\* two-digit, zero-padded
Pad2(n) == <<Digit((n \div 10) % 10), Digit(n % 10)>>

\* four-digit year
Pad4(n) == Pad2(n \div 100) \o Pad2(n % 100)

\* wall-clock readings the run may observe
Clocks == {[month |-> 10, day |-> 30, year |-> 2026, hour |-> 12, minute |-> 19, second |-> 0],
           [month |-> 3, day |-> 7, year |-> 2027, hour |-> 5, minute |-> 4, second |-> 9]}

FormatTime(t) ==
    MonthNames[t.month] \o <<" ">> \o Pad2(t.day) \o <<",", " ">> \o Pad4(t.year)
        \o <<" ">> \o Pad2(t.hour) \o <<":">> \o Pad2(t.minute) \o <<":">> \o Pad2(t.second)

(***************************************************************************)
(* stdout.replace("\n", ""): a string pattern replaces the FIRST           *)
(* occurrence only                                                         *)
(***************************************************************************)
FirstIndex(s, c) ==
    IF \E i \in 1..Len(s) : s[i] = c
    THEN CHOOSE i \in 1..Len(s) : s[i] = c /\ \A k \in 1..(i - 1) : s[k] # c
    ELSE 0

ReplaceNewline(s) ==
    LET i == FirstIndex(s, NEWLINE)
    IN  IF i = 0 THEN s ELSE SubSeq(s, 1, i - 1) \o SubSeq(s, i + 1, Len(s))

(***************************************************************************)
(* The build object: insertion-ordered properties                          *)
(***************************************************************************)
KeyText == [hash |-> <<"h", "a", "s", "h">>,
            user |-> <<"u", "s", "e", "r">>,
            version |-> <<"v", "e", "r", "s", "i", "o", "n">>,
            timestamp |-> <<"t", "i", "m", "e", "s", "t", "a", "m", "p">>]

Keys(b) == [i \in 1..Len(b) |-> b[i].key]

HasKey(b, k) == \E i \in 1..Len(b) : b[i].key = k

ValueOf(b, k) == b[CHOOSE i \in 1..Len(b) : b[i].key = k].value

\* a variant of the assignment that leaves out a key whose value is undefined
SetField_dropUndefined(b, k, v) ==
    IF v.defined THEN Append(b, [key |-> k, value |-> v]) ELSE b

\* build.k = v : an existing property keeps its place, a new one goes last
SetField(b, k, v) ==
    IF HasKey(b, k)
    THEN [i \in 1..Len(b) |-> IF b[i].key = k THEN [key |-> k, value |-> v] ELSE b[i]]
    ELSE Append(b, [key |-> k, value |-> v])

(***************************************************************************)
(* JSON.stringify(build, null, 4)                                          *)
(***************************************************************************)
EscapeChar(c) ==
    IF c = QUOTE THEN <<BACKSLASH, QUOTE>>
    ELSE IF c = BACKSLASH THEN <<BACKSLASH, BACKSLASH>>
    ELSE IF c = NEWLINE THEN <<BACKSLASH, "n">>
    ELSE <<c>>

RECURSIVE Escape(_)
Escape(s) == IF s = <<>> THEN <<>> ELSE EscapeChar(Head(s)) \o Escape(Tail(s))

\* a string as a JSON string literal
Quote(s) == <<QUOTE>> \o Escape(s) \o <<QUOTE>>

\* a variant that serializes every property, undefined ones included
Properties_keepUndefined(b) == b

\* properties whose value is undefined are left out by JSON.stringify
Properties(b) == SelectSeq(b, LAMBDA p : p.value.defined)

Indent == <<" ", " ", " ", " ">>

Member(p) == Indent \o Quote(KeyText[p.key]) \o <<":", " ">> \o Quote(p.value.str)

RECURSIVE Members(_)
Members(ps) ==
    IF Len(ps) = 1 THEN Member(ps[1])
    ELSE Member(ps[1]) \o <<",", NEWLINE>> \o Members(Tail(ps))

Stringify(b) ==
    LET ps == Properties(b)
    IN  IF ps = <<>> THEN <<"{", "}">>
        ELSE <<"{", NEWLINE>> \o Members(ps) \o <<NEWLINE, "}">>

(***************************************************************************)
(* .replace(/\"([^(\")"]+)\":/g, "$1:")                                    *)
(***************************************************************************)
\* position of the first quote at or after i, 0 when there is none
NextQuote(s, i) ==
    IF \E j \in i..Len(s) : s[j] = QUOTE
    THEN CHOOSE j \in i..Len(s) : s[j] = QUOTE /\ \A k \in i..(j - 1) : s[k] # QUOTE
    ELSE 0

\* the pattern matches at the quote at i: position of its closing quote, 0
\* when it does not.  The class excludes the quote, so the group runs up to
\* the next quote; it is not empty and has no parenthesis, and a colon follows.
MatchAt(s, i) ==
    LET j == NextQuote(s, i + 1)
    IN  IF /\ j > i + 1
           /\ j + 1 <= Len(s)
           /\ s[j + 1] = ":"
           /\ \A k \in (i + 1)..(j - 1) : s[k] \notin {"(", ")"}
        THEN j ELSE 0

\* the global replace from position i on: matches are taken left to right and
\* do not overlap; a match can only begin at a quote
RECURSIVE ReplaceFrom(_, _)
ReplaceFrom(s, i) ==
    LET q == NextQuote(s, i)
    IN  IF q = 0 THEN SubSeq(s, i, Len(s))
        ELSE LET j == MatchAt(s, q)
             IN  IF j # 0
                 THEN SubSeq(s, i, q - 1) \o SubSeq(s, q + 1, j - 1) \o <<":">>
                          \o ReplaceFrom(s, j + 2)
                 ELSE SubSeq(s, i, q) \o ReplaceFrom(s, q + 1)

UnquoteKeys(s) == ReplaceFrom(s, 1)

\* the text handed to fs.writeFile
FileText(b) ==
    <<"// Angular build information, automatically generated by ", BACKTICK,
      "angular-build-info", BACKTICK, NEWLINE, "export const buildInfo = ">>
        \o UnquoteKeys(Stringify(b)) \o <<";", NEWLINE>>

(***************************************************************************)
(* signale                                                                 *)
(***************************************************************************)
Msg(level, text, arg) == [level |-> level, text |-> text, arg |-> arg]

\* the messages of displayManual (lines 143-150)
Manual == <<
    Msg("info", "Welcome to angular-build-info!", <<>>),
    Msg("info", "", <<>>),
    Msg("info", "--help          Displays this message", <<>>),
    Msg("info", "--init          Creates template build.ts file so you can start implementing it", <<>>),
    Msg("info", "--no-hash       Will not add latest commit hash to final build.ts", <<>>),
    Msg("info", "--no-user       Will not add git username to final build.ts", <<>>),
    Msg("info", "--no-version    Will not add version from package.json to build.ts", <<>>),
    Msg("info", "--no-time       Will not add timestamp to final build.ts", <<>> ) >>

\* the messages init prints before it writes (lines 104-112)
Welcome == <<
    Msg("info", "Welcome to angular-build-info!", <<>>),
    Msg("info", "We will now create a boilerplate build.ts file", exportPath),
    Msg("info", "If you wish for more info on how to implement the provided info", <<>>),
    Msg("start", "Creating build.ts file...", <<>>) >>

\* the messages init prints after a successful write (lines 131-136)
Guidance == <<
    Msg("success", "Successfully created build.ts file!", <<>>),
    Msg("info", "You should now modify your build/deploy scripts", <<>>),
    Msg("info", "[...] build: build-info && ng build --prod, [...]", <<>>),
    Msg("info", "Again, you can find more info on implementing this tool on the main repo.", <<>>) >>

Saved == Msg("success", "Saved build information to", exportPath)

WriteError == Msg("error", "An error occured writing to, does the path exist?", exportPath)

\* a variant of the catch block after which the success message is printed too
WriteFailed_thenSuccess(l, success) == Append(l, WriteError) \o success

\* the catch block of the write (lines 95-97, 137-139)
WriteFailed(l, success) == Append(l, WriteError)

\* the try block after the write has succeeded (lines 94, 131-136)
WriteSucceeded(l, success) == l \o success

(***************************************************************************)
(* External operations                                                     *)
(***************************************************************************)
\* what a command prints on its standard output: nothing, or a value (which
\* may itself hold any character) followed by a line break
Stdouts == {<<>>} \cup {v \o <<NEWLINE>> : v \in TextsUpTo(Alphabet, MaxOut)}

\* what the command printed on its error channel: nothing, or some text
Stderrs == {<<>>, <<"warning: some text">>}

\* exec resolves with what the command printed when it exits with 0, and
\* rejects when it exits with another code or cannot be started
\* (what came on stdout is not looked at when stderr is not empty, so two
\* texts stand for it there)
ExecOutcomes ==
    {[rejected |-> FALSE, stdout |-> o, stderr |-> <<>>] : o \in Stdouts}
        \cup {[rejected |-> FALSE, stdout |-> o, stderr |-> e] :
                   o \in {<<>>, <<"a", NEWLINE>>}, e \in Stderrs \ {<<>>}}
        \cup {[rejected |-> TRUE, stdout |-> <<>>, stderr |-> <<"fatal: some text">>]}

\* a variant of the await that goes on while the operation is still running
Complete_noAwait(running, op) == running

\* await: the run goes on when the operation has completed
Complete(running, op) == running \ {op}

Issue(running, op) == running \cup {op}

\* what getGitUser and getCommitHash return for a resolved exec
GitValue(o) == IF o.stderr # <<>> THEN Undefined ELSE Str(ReplaceNewline(o.stdout))

\* the message getCommitHash prints (lines 42-47)
HashMsg(o) ==
    IF o.stderr # <<>>
    THEN Msg("error", "Error getting latest commit hash, skipping...", <<>>)
    ELSE Msg("success", "Found commit hash:", ReplaceNewline(o.stdout))

\* the message getGitUser prints (lines 31-36)
UserMsg(o) ==
    IF o.stderr # <<>>
    THEN Msg("error", "Error getting git user, skipping...", <<>>)
    ELSE Msg("success", "Found git user:", ReplaceNewline(o.stdout))

Query(op, o) ==
    [op |-> op, rejected |-> o.rejected, stdout |-> o.stdout, stderr |-> o.stderr,
     returned |-> IF o.rejected THEN Undefined ELSE GitValue(o)]

(***************************************************************************)
(* start() (lines 156-168)                                                 *)
(***************************************************************************)
\* a variant of the dispatch that looks for --help first
Mode_helpFirst(a) ==
    IF Includes(a, "--help") THEN "displayManual"
    ELSE IF Includes(a, "--init") THEN "init"
    ELSE "buildInfo"

Mode(a) ==
    IF Includes(a, "--init") THEN "init"
    ELSE IF Includes(a, "--help") THEN "displayManual"
    ELSE "buildInfo"

(***************************************************************************)
(* buildInfo() (lines 51-98)                                               *)
(***************************************************************************)
\* args.map throws at the first argument that is not an option (lines 55-59)
FirstUnknown(a) ==
    IF \E i \in 1..Len(a) : a[i] \notin opts
    THEN CHOOSE i \in 1..Len(a) : a[i] \notin opts /\ \A k \in 1..(i - 1) : a[k] \in opts
    ELSE 0

\* a variant that adds the version whatever the arguments are
AddVersion_always(a, b) == SetField(b, "version", version)

\* lines 72-74
AddVersion(a, b) ==
    IF ~Includes(a, "--no-version") THEN SetField(b, "version", version) ELSE b

\* lines 76-78
AddTimestamp(a, b, now) ==
    IF ~Includes(a, "--no-time") THEN SetField(b, "timestamp", Str(FormatTime(now))) ELSE b

\* the run issues an external operation and is suspended until it completes
Suspend(op, running, b, l, text) ==
    /\ pc' = op
    /\ inflight' = Issue(running, op)
    /\ issued' = Append(issued, op)
    /\ build' = b
    /\ log' = l
    /\ pending' = text

\* lines 72-93: version, timestamp, the message with the record, the write
WriteStage(running, b, l) ==
    \E now \in Clocks :
        LET b2 == AddTimestamp(args, AddVersion(args, b), now)
        IN  Suspend("write", running, b2, Append(l, Msg("info", "build", b2)), FileText(b2))

\* lines 68-70
UserStage(running, b, l) ==
    IF ~Includes(args, "--no-user")
    THEN Suspend("user", running, b, l, pending)
    ELSE WriteStage(running, b, l)

\* lines 64-66
HashStage(running, b, l) ==
    IF ~Includes(args, "--no-hash")
    THEN Suspend("hash", running, b, l, pending)
    ELSE UserStage(running, b, l)

Collecting == Msg("start", "Collecting build information...", <<>>)

\* start() calls buildInfo(), which runs up to its first await or throws
StartBuildInfo ==
    /\ pc = "start"
    /\ Mode(args) = "buildInfo"
    /\ ran' = ran \cup {"buildInfo"}
    /\ IF FirstUnknown(args) # 0
       THEN /\ status' = "rejected"
            /\ error' = [kind |-> "UnknownArg", arg |-> args[FirstUnknown(args)]]
            /\ pc' = "done"
            /\ log' = Append(log, Collecting)
            /\ UNCHANGED <<build, inflight, issued, pending>>
       ELSE /\ HashStage(inflight, <<>>, Append(log, Collecting))
            /\ UNCHANGED <<status, error>>
    /\ UNCHANGED <<args, version, template, queries, written, file>>

\* the exec of getCommitHash settles and buildInfo runs to its next await
HashDone ==
    /\ pc = "hash"
    /\ \E o \in ExecOutcomes :
        /\ queries' = Append(queries, Query("hash", o))
        /\ IF o.rejected
           THEN /\ status' = "rejected"
                /\ error' = [kind |-> "ExecError", arg |-> "git rev-parse --short HEAD"]
                /\ pc' = "done"
                /\ inflight' = Complete(inflight, "hash")
                /\ UNCHANGED <<build, log, issued, pending>>
           ELSE /\ UserStage(Complete(inflight, "hash"),
                             SetField(build, "hash", GitValue(o)),
                             Append(log, HashMsg(o)))
                /\ UNCHANGED <<status, error>>
    /\ UNCHANGED <<args, version, ran, template, written, file>>

\* the exec of getGitUser settles and buildInfo runs to its next await
UserDone ==
    /\ pc = "user"
    /\ \E o \in ExecOutcomes :
        /\ queries' = Append(queries, Query("user", o))
        /\ IF o.rejected
           THEN /\ status' = "rejected"
                /\ error' = [kind |-> "ExecError", arg |-> "git config user.name"]
                /\ pc' = "done"
                /\ inflight' = Complete(inflight, "user")
                /\ UNCHANGED <<build, log, issued, pending>>
           ELSE /\ WriteStage(Complete(inflight, "user"),
                              SetField(build, "user", GitValue(o)),
                              Append(log, UserMsg(o)))
                /\ UNCHANGED <<status, error>>
    /\ UNCHANGED <<args, version, ran, template, written, file>>

\* fs.writeFile settles and buildInfo returns (lines 86-97)
WriteDone ==
    /\ pc = "write"
    /\ \E ok \in BOOLEAN :
        /\ written' = IF ok THEN "ok" ELSE "failed"
        /\ file' = IF ok THEN pending ELSE file
        /\ log' = IF ok THEN WriteSucceeded(log, <<Saved>>) ELSE WriteFailed(log, <<Saved>>)
    /\ inflight' = Complete(inflight, "write")
    /\ pc' = "done"
    /\ status' = "returned"
    /\ UNCHANGED <<args, version, error, ran, build, template, issued, queries, pending>>

(***************************************************************************)
(* init() (lines 100-140)                                                  *)
(***************************************************************************)
Template(now) == <<
    [key |-> "user", value |-> Str(<<"O", "c", "t", "o", "c", "a", "t">>)],
    [key |-> "hash", value |-> Str(<<"1", "e", "8", "7", "2", "b", "5">>)],
    [key |-> "version", value |-> Str(<<"1", ".", "0", ".", "0">>)],
    [key |-> "timestamp", value |-> Str(FormatTime(now))] >>

\* start() calls init(), which runs up to its await
StartInit ==
    /\ pc = "start"
    /\ Mode(args) = "init"
    /\ ran' = ran \cup {"init"}
    /\ \E now \in Clocks :
        /\ template' = Template(now)
        /\ pending' = FileText(Template(now))
    /\ log' = log \o Welcome
    /\ pc' = "initwrite"
    /\ inflight' = Issue(inflight, "write")
    /\ issued' = Append(issued, "write")
    /\ UNCHANGED <<args, version, status, error, build, queries, written, file>>

\* fs.writeFile settles and init returns (lines 122-139)
InitWriteDone ==
    /\ pc = "initwrite"
    /\ \E ok \in BOOLEAN :
        /\ written' = IF ok THEN "ok" ELSE "failed"
        /\ file' = IF ok THEN pending ELSE file
        /\ log' = IF ok THEN WriteSucceeded(log, Guidance) ELSE WriteFailed(log, Guidance)
    /\ inflight' = Complete(inflight, "write")
    /\ pc' = "done"
    /\ status' = "returned"
    /\ UNCHANGED <<args, version, error, ran, build, template, issued, queries, pending>>

(***************************************************************************)
(* displayManual() (lines 142-151)                                         *)
(***************************************************************************)
StartHelp ==
    /\ pc = "start"
    /\ Mode(args) = "displayManual"
    /\ ran' = ran \cup {"displayManual"}
    /\ log' = log \o Manual
    /\ pc' = "done"
    /\ status' = "returned"
    /\ UNCHANGED <<args, version, error, build, template, inflight, issued, queries,
                   pending, written, file>>

(***************************************************************************)
(* The invocation                                                          *)
(***************************************************************************)
\* the flags that keep a field out of the record, in the order of the fields
SuppressionFlags == <<"--no-hash", "--no-user", "--no-version", "--no-time">>

\* one argument list for every subset of the suppression flags
SuppressionLists ==
    {SelectSeq(SuppressionFlags, LAMBDA f : f \in S) :
        S \in SUBSET {SuppressionFlags[i] : i \in 1..Len(SuppressionFlags)}}

\* every short list of tokens, and every subset of the suppression flags
ArgLists == UNION {[1..k -> Tokens] : k \in 0..MaxArgs} \cup SuppressionLists

NoError == [kind |-> "none", arg |-> ""]

Init ==
    /\ args \in ArgLists
    /\ version \in Versions
    /\ pc = "start"
    /\ status = "running"
    /\ error = NoError
    /\ ran = {}
    /\ build = <<>>
    /\ template = <<>>
    /\ log = <<>>
    /\ inflight = {}
    /\ issued = <<>>
    /\ queries = <<>>
    /\ pending = <<>>
    /\ written = "none"
    /\ file = <<>>

Next ==
    \/ StartInit
    \/ InitWriteDone
    \/ StartHelp
    \/ StartBuildInfo
    \/ HashDone
    \/ UserDone
    \/ WriteDone

Spec == Init /\ [][Next]_vars

TypeOK ==
    /\ pc \in {"start", "hash", "user", "write", "initwrite", "done"}
    /\ status \in {"running", "returned", "rejected"}
    /\ ran \subseteq {"init", "displayManual", "buildInfo"}
    /\ inflight \subseteq {"hash", "user", "write"}
    /\ written \in {"none", "ok", "failed"}

(***************************************************************************)
(* Properties                                                              *)
(***************************************************************************)
\* an argument that is not an option was given
HasUnknown(a) == \E i \in 1..Len(a) : a[i] \notin opts

\* the number of times op occurs in a sequence of operations
Count(ops, op) == Cardinality({i \in 1..Len(ops) : ops[i] = op})

\* text t holds the text sub
Contains(t, sub) ==
    \E i \in 1..(Len(t) - Len(sub) + 1) : SubSeq(t, i, i + Len(sub) - 1) = sub

\* buildInfo has assembled its record and handed the text to fs.writeFile
Assembled == "buildInfo" \in ran /\ Count(issued, "write") = 1

\* the field each suppression flag keeps out
FlagOf == [hash |-> "--no-hash", user |-> "--no-user",
           version |-> "--no-version", timestamp |-> "--no-time"]

FieldOrder == <<"hash", "user", "version", "timestamp">>

\* C1: whenever an argument outside the recognized set is given, whatever the
\* other arguments are, no metadata query and no write is ever issued, and the
\* finished run was rejected with an error that names an unrecognized argument.
C1_UnknownArgAlwaysFatal ==
    HasUnknown(args) =>
        /\ issued = <<>>
        /\ queries = <<>>
        /\ pc = "done" =>
              /\ status = "rejected"
              /\ error.kind = "UnknownArg"
              /\ error.arg \notin opts
              /\ Includes(args, error.arg)

\* C2: once buildInfo has assembled its record, the keys of the record are
\* exactly the fields whose suppression flag was not given, in the order
\* hash, user, version, timestamp.
C2_ComplementaryKeysInOrder ==
    Assembled =>
        Keys(build) = SelectSeq(FieldOrder, LAMBDA k : ~Includes(args, FlagOf[k]))

\* C2 witness: with --no-hash and --no-time the assembled record has the keys
\* user and version, in that order.
C2_Witness ==
    /\ Assembled
    /\ args = <<"--no-hash", "--no-time">>
    /\ Keys(build) = <<"user", "version">>

\* C3: exactly one flow runs, chosen by priority.  With --init only init has
\* run: no query is issued and neither the manual nor buildInfo's opening
\* message is printed.  Otherwise with --help only displayManual has run:
\* nothing is issued, the file is untouched and the log is the manual.
\* Otherwise only buildInfo has run: init's record is never made and the log
\* opens with buildInfo's message.
C3_OneModeByPriority ==
    pc # "start" =>
        /\ Cardinality(ran) = 1
        /\ Includes(args, "--init") =>
              /\ ran = {"init"}
              /\ issued = <<"write">>
              /\ queries = <<>>
              /\ build = <<>>
              /\ template # <<>>
              /\ SubSeq(log, 1, Len(Welcome)) = Welcome
        /\ ~Includes(args, "--init") /\ Includes(args, "--help") =>
              /\ ran = {"displayManual"}
              /\ issued = <<>>
              /\ queries = <<>>
              /\ written = "none"
              /\ file = <<>>
              /\ log = Manual
              /\ status = "returned"
        /\ ~Includes(args, "--init") /\ ~Includes(args, "--help") =>
              /\ ran = {"buildInfo"}
              /\ template = <<>>
              /\ log[1] = Collecting

\* C3 witness: --init and --help are both given and only init has run.
C3_Witness ==
    /\ pc = "done"
    /\ Includes(args, "--init")
    /\ Includes(args, "--help")
    /\ ran = {"init"}
    /\ written = "ok"

\* the run printed the message that follows a successful write
SuccessPrinted ==
    \E i \in 1..Len(log) :
        /\ log[i].level = "success"
        /\ log[i].text \in {Saved.text, Guidance[1].text}

\* C4: in buildInfo and in init, when the write has failed the run has
\* returned normally, the last message is of error severity and carries the
\* destination path, no message of a successful write was printed, and the
\* file is as it was.
C4_WriteFailureIsCaught ==
    written = "failed" =>
        /\ pc = "done"
        /\ status = "returned"
        /\ error = NoError
        /\ log[Len(log)].level = "error"
        /\ log[Len(log)].arg = exportPath
        /\ ~SuccessPrinted
        /\ file = <<>>

\* C4 witness: the write of buildInfo failed after both queries were made.
C4_Witness ==
    /\ written = "failed"
    /\ ran = {"buildInfo"}
    /\ Len(queries) = 2

\* C5: a run is rejected only for an unrecognized argument; whatever the
\* external commands do, a finished buildInfo run without an unrecognized
\* argument has returned normally after issuing its write.
C5_OnlyUnknownArgRejects ==
    /\ status = "rejected" => error.kind = "UnknownArg"
    /\ (pc = "done" /\ ran = {"buildInfo"} /\ ~HasUnknown(args)) =>
            /\ status = "returned"
            /\ Count(issued, "write") = 1

\* C6: when a lookup has returned undefined (its flag was not given), the
\* record has the key of that lookup, with the value undefined.
C6_AbsentLookupKeepsKey ==
    \A i \in 1..Len(queries) :
        (~queries[i].rejected /\ ~queries[i].returned.defined) =>
            /\ HasKey(build, queries[i].op)
            /\ ValueOf(build, queries[i].op) = Undefined

\* C6 witness: the user lookup returned undefined after the hash lookup gave
\* a text, and the record has both keys.
C6_Witness ==
    /\ Len(queries) = 2
    /\ queries[1].returned.defined
    /\ ~queries[2].rejected
    /\ ~queries[2].returned.defined
    /\ Keys(build) = <<"hash", "user", "version", "timestamp">>
    /\ ValueOf(build, "user") = Undefined

\* the record whose text was handed to fs.writeFile
Record == IF "init" \in ran THEN template ELSE build

\* the text handed to fs.writeFile has a line for key k
HasEntry(text, k) == Contains(text, <<NEWLINE>> \o Indent \o KeyText[k] \o <<":", " ">>)

\* C7 as stated: the written text has an entry for every key of the record.
C7_EveryKeyHasEntry ==
    Count(issued, "write") = 1 =>
        \A i \in 1..Len(Record) : HasEntry(pending, Record[i].key)

\* C7 as amended: the written text has an entry for exactly the keys of the
\* record whose value is a string; a key whose value is undefined has none.
C7_EntryIffValueDefined ==
    Count(issued, "write") = 1 =>
        \A i \in 1..Len(Record) :
            HasEntry(pending, Record[i].key) <=> Record[i].value.defined

\* C7 witness: the record has hash undefined and user a text; the written text
\* has an entry for user and none for hash.
C7_Witness ==
    /\ pc = "write"
    /\ HasKey(build, "hash") /\ ~ValueOf(build, "hash").defined
    /\ HasKey(build, "user") /\ ValueOf(build, "user").defined
    /\ ~HasEntry(pending, "hash")
    /\ HasEntry(pending, "user")

\* a text without the line separators at its end
RECURSIVE StripTrailing(_)
StripTrailing(s) ==
    IF s # <<>> /\ s[Len(s)] = NEWLINE THEN StripTrailing(SubSeq(s, 1, Len(s) - 1)) ELSE s

\* C8: a text returned by getGitUser or getCommitHash is what the command
\* printed without its trailing line separators, and does not end with one.
C8_NoTrailingNewline ==
    \A i \in 1..Len(queries) :
        (~queries[i].rejected /\ queries[i].returned.defined) =>
            LET r == queries[i].returned.str
            IN  /\ r = StripTrailing(queries[i].stdout)
                /\ r = <<>> \/ r[Len(r)] # NEWLINE

\* C9: for every string value of the record, the written text has the key,
\* unquoted, followed by the value as a double-quoted literal with its quotes
\* escaped, exactly as JSON.stringify rendered it.
C9_ValuesQuotedUnchanged ==
    Count(issued, "write") = 1 =>
        \A i \in 1..Len(Record) :
            Record[i].value.defined =>
                Contains(pending, <<NEWLINE>> \o Indent \o KeyText[Record[i].key]
                                      \o <<":", " ">> \o Quote(Record[i].value.str))

\* C10: at most one write is issued; at most one external operation is in
\* flight at any time; the operations are issued in the order hash, user,
\* write; the user query is issued only when the hash query has completed and
\* the write only when every issued query has completed.
C10_OperationsNeverOverlap ==
    /\ Count(issued, "write") <= 1
    /\ Cardinality(inflight) <= 1
    /\ \A i, j \in 1..Len(issued) :
          i < j => <<issued[i], issued[j]>> \in
                       {<<"hash", "user">>, <<"hash", "write">>, <<"user", "write">>}
    /\ "user" \in inflight => Len(queries) = Count(issued, "hash")
    /\ "write" \in inflight =>
          /\ inflight = {"write"}
          /\ Len(queries) = Count(issued, "hash") + Count(issued, "user")

\* C10 witness: the write is in flight, alone, after both queries completed.
C10_Witness ==
    /\ issued = <<"hash", "user", "write">>
    /\ inflight = {"write"}
    /\ Len(queries) = 2
    /\ queries[1].op = "hash"
    /\ queries[2].op = "user"

====
